---- MODULE Spec2Model ----
(***************************************************************************)
(* A model of the eventdbx native bridge (src/native/src/lib.rs): the      *)
(* C-ABI facade over the asynchronous EventDBX client.  The module holds   *)
(*   - the value model (strings, JSON values, C buffers, Option, Result),  *)
(*   - the request decoders as operators (parse_sort,                      *)
(*     parse_publish_targets, parse_payload_options), the config resolver  *)
(*     (default_host, default_token, default_tenant),                      *)
(*   - the entry points dbx_* as actions over the handles, the execution   *)
(*     contexts, the heap of buffers handed across the boundary and the    *)
(*     caller's error slot.                                                *)
(*                                                                         *)
(* Strings are sequences of units; a unit is a run of characters.  The     *)
(* strings the code analyses character by character (sort specifications)  *)
(* are built from one-character units.                                     *)
(***************************************************************************)
EXTENDS Integers, Sequences, FiniteSets, TLC

VARIABLES
    arg,        \* the input handed to a decoder (decoder specifications)
    out,        \* the results of the decoder's successive applications to arg
    handles,    \* handle id -> [live, runtime]: every DbxHandle ever boxed
    runtimes,   \* runtime id -> "live" | "dropped": every Runtime ever created
    heap,       \* buffer id -> how often it was freed: every CString given out by into_raw
    owned,      \* the buffers the caller holds and has not released yet
    slot,       \* what the caller's error-out slot holds: NULL or a buffer id
    pc,         \* the caller's position: "idle", or "returned" from a call
    last,       \* what the call that just returned was given and what it did
    threads,    \* thread id -> the calls it made on its handle and where it stands
    clients     \* handle id -> the requests its client received, answered, has in flight

vars == <<arg, out, handles, runtimes, heap, owned, slot, pc, last, threads, clients>>

decoderVars == <<arg, out>>
bridgeVars == <<handles, runtimes, heap, owned, slot, pc, last>>
threadVars == <<threads, clients>>

(***************************************************************************)
(* Bounds of the model.                                                    *)
(***************************************************************************)
MaxSortTokens == 3      \* comma-separated tokens in a sort specification
MaxTargets == 2         \* entries of a publishTargets array
MaxDecodes == 2         \* applications of parse_payload_options to one input
MaxHandles == 1         \* handles boxed in one run
MaxBuffers == 2         \* buffers given out in one run
MaxCalls == 2           \* calls a thread makes on its handle

(***************************************************************************)
(* Option and Result.                                                      *)
(***************************************************************************)
None == [some |-> FALSE]
Some(x) == [some |-> TRUE, v |-> x]
Ok(x) == [ok |-> TRUE, v |-> x]
Err(e) == [ok |-> FALSE, e |-> e]

\* Option::or_else
OrElse(a, b) == IF a.some THEN a ELSE b
\* Option::unwrap_or / unwrap_or_else
UnwrapOr(a, d) == IF a.some THEN a.v ELSE d

(***************************************************************************)
(* serde_json::Value.                                                      *)
(***************************************************************************)
JNull == [t |-> "null"]
JBool(b) == [t |-> "bool", b |-> b]
JNum(n) == [t |-> "num", n |-> n]
JStr(s) == [t |-> "str", s |-> s]
JArr(a) == [t |-> "arr", a |-> a]
JObj(o) == [t |-> "obj", o |-> o]

\* Value::get(key) with a string key: a member of an object, None otherwise
Get(v, key) == IF v.t = "obj" /\ key \in DOMAIN v.o THEN Some(v.o[key]) ELSE None
\* Map::get(key)
MapGet(map, key) == IF key \in DOMAIN map THEN Some(map[key]) ELSE None
\* Value::as_str, as_bool, as_u64, as_object behind Option::and_then
AsStr(o) == IF o.some /\ o.v.t = "str" THEN Some(o.v.s) ELSE None
AsBool(o) == IF o.some /\ o.v.t = "bool" THEN Some(o.v.b) ELSE None
AsU64(o) == IF o.some /\ o.v.t = "num" /\ o.v.n >= 0 THEN Some(o.v.n) ELSE None
AsObject(v) == IF v.t = "obj" THEN Some(v.o) ELSE None

\* A member that is left out of an object under construction.
Absent == [t |-> "absent"]
MkMap(f) == [k \in {k \in DOMAIN f : f[k] # Absent} |-> f[k]]
MkObj(f) == JObj(MkMap(f))
EmptyMap == MkMap(<<>>)

(***************************************************************************)
(* Strings: str::split, str::trim, str::to_lowercase, str::splitn(2, _).   *)
(***************************************************************************)
EmptyStr == <<>>
IsWhitespace(c) == c \in {" ", "\t", "\n", "\r"}

LowerTable ==
    ("A" :> "a") @@
    ("B" :> "b") @@
    ("C" :> "c") @@
    ("D" :> "d") @@
    ("E" :> "e") @@
    ("F" :> "f") @@
    ("G" :> "g") @@
    ("H" :> "h") @@
    ("I" :> "i") @@
    ("J" :> "j") @@
    ("K" :> "k") @@
    ("L" :> "l") @@
    ("M" :> "m") @@
    ("N" :> "n") @@
    ("O" :> "o") @@
    ("P" :> "p") @@
    ("Q" :> "q") @@
    ("R" :> "r") @@
    ("S" :> "s") @@
    ("T" :> "t") @@
    ("U" :> "u") @@
    ("V" :> "v") @@
    ("W" :> "w") @@
    ("X" :> "x") @@
    ("Y" :> "y") @@
    ("Z" :> "z")
ToLowerChar(c) == IF c \in DOMAIN LowerTable THEN LowerTable[c] ELSE c
ToLowercase(s) == [i \in 1..Len(s) |-> ToLowerChar(s[i])]

RECURSIVE TrimStart(_)
TrimStart(s) == IF s # <<>> /\ IsWhitespace(Head(s)) THEN TrimStart(Tail(s)) ELSE s
RECURSIVE TrimEnd(_)
TrimEnd(s) ==
    IF s # <<>> /\ IsWhitespace(s[Len(s)]) THEN TrimEnd(SubSeq(s, 1, Len(s) - 1)) ELSE s
Trim(s) == TrimEnd(TrimStart(s))

\* the index of the first c in s, 0 when there is none
RECURSIVE FindFrom(_, _, _)
FindFrom(s, c, i) ==
    IF i > Len(s) THEN 0 ELSE IF s[i] = c THEN i ELSE FindFrom(s, c, i + 1)
Find(s, c) == FindFrom(s, c, 1)

\* s.split(c): always at least one part, the empty string splits into <<"">>
RECURSIVE Split(_, _)
Split(s, c) ==
    LET i == Find(s, c)
    IN  IF i = 0 THEN <<s>>
        ELSE <<SubSeq(s, 1, i - 1)>> \o Split(SubSeq(s, i + 1, Len(s)), c)

\* s.splitn(2, c): the part before the first c, and the rest if there is a c
SplitN2(s, c) ==
    LET i == Find(s, c)
    IN  IF i = 0 THEN <<s>> ELSE <<SubSeq(s, 1, i - 1), SubSeq(s, i + 1, Len(s))>>

\* parts.join(c)
RECURSIVE Join(_, _)
Join(parts, c) ==
    IF parts = <<>> THEN <<>>
    ELSE IF Len(parts) = 1 THEN parts[1]
    ELSE parts[1] \o <<c>> \o Join(Tail(parts), c)

S_aggregate_type == <<"a", "g", "g", "r", "e", "g", "a", "t", "e", "_", "t", "y", "p", "e">>
S_type == <<"t", "y", "p", "e">>
S_aggregate_id == <<"a", "g", "g", "r", "e", "g", "a", "t", "e", "_", "i", "d">>
S_id == <<"i", "d">>
S_archived == <<"a", "r", "c", "h", "i", "v", "e", "d">>
S_created_at == <<"c", "r", "e", "a", "t", "e", "d", "_", "a", "t">>
S_updated_at == <<"u", "p", "d", "a", "t", "e", "d", "_", "a", "t">>
S_asc == <<"a", "s", "c">>
S_desc == <<"d", "e", "s", "c">>
S_descending == <<"d", "e", "s", "c", "e", "n", "d", "i", "n", "g">>

(***************************************************************************)
(* parse_sort                                                              *)
(***************************************************************************)
\* the match on field_raw: Some(field), or None for the `_ => continue` arm
SortField(field_raw) ==
    IF field_raw \in {S_aggregate_type, S_type} THEN Some("AggregateType")
    ELSE IF field_raw \in {S_aggregate_id, S_id} THEN Some("AggregateId")
    ELSE IF field_raw = S_archived THEN Some("Archived")
    ELSE IF field_raw = S_created_at THEN Some("CreatedAt")
    ELSE IF field_raw = S_updated_at THEN Some("UpdatedAt")
    ELSE None

\* only "desc" taken as descending
SortPartMutDescOnly(sorts, part) ==
    LET iter == SplitN2(part, ":")
        field_raw == ToLowercase(Trim(iter[1]))
        order_raw == ToLowercase(Trim(IF Len(iter) > 1 THEN iter[2] ELSE S_asc))
        field == SortField(field_raw)
    IN  IF ~field.some THEN sorts
        ELSE Append(sorts, [field |-> field.v, descending |-> order_raw = S_desc])

\* the body of the for loop, for one part: the sorts with this part's entry pushed
SortPart(sorts, part) ==
    LET iter == SplitN2(part, ":")
        field_raw == ToLowercase(Trim(iter[1]))
        order_raw == ToLowercase(Trim(IF Len(iter) > 1 THEN iter[2] ELSE S_asc))
        field == SortField(field_raw)
        descending == order_raw \in {S_desc, S_descending}
    IN  IF ~field.some THEN sorts
        ELSE Append(sorts, [field |-> field.v, descending |-> descending])

RECURSIVE SortLoop(_, _)
SortLoop(sorts, parts) ==
    IF parts = <<>> THEN sorts
    ELSE LET part == Trim(Head(parts))
         IN  SortLoop(IF part = <<>> THEN sorts ELSE SortPart(sorts, part), Tail(parts))

\* value: Option<&Value>
parse_sort(value) ==
    IF ~(value.some /\ value.v.t = "str") THEN <<>>
    ELSE SortLoop(<<>>, Split(value.v.s, ","))

(***************************************************************************)
(* parse_publish_targets                                                   *)
(***************************************************************************)
\* the mode of an entry never copied
PublishTargetMutNoMode(item) ==
    [plugin |-> AsStr(Get(item, "plugin")).v,
     mode |-> None,
     priority |-> AsStr(Get(item, "priority"))]

\* PublishTarget::new(plugin) with mode and priority then assigned
PublishTargetOf(item) ==
    [plugin |-> AsStr(Get(item, "plugin")).v,
     mode |-> AsStr(Get(item, "mode")),
     priority |-> AsStr(Get(item, "priority"))]

RECURSIVE TargetsLoop(_, _)
TargetsLoop(targets, items) ==
    IF items = <<>> THEN targets
    ELSE LET item == Head(items)
         IN  TargetsLoop(IF AsStr(Get(item, "plugin")).some
                         THEN Append(targets, PublishTargetOf(item))
                         ELSE targets,
                         Tail(items))

\* value: Option<&Value>
parse_publish_targets(value) ==
    IF value.some /\ value.v.t = "arr" THEN TargetsLoop(<<>>, value.v.a) ELSE <<>>

(***************************************************************************)
(* parse_payload_options                                                   *)
(***************************************************************************)
\* metadata read from the payload member
parse_payload_options_mut_metadata(opts_value) ==
    LET map == AsObject(opts_value)
    IN  IF ~map.some
        THEN [payload |-> JNull, note |-> None, metadata |-> None, token |-> None,
              publish_targets |-> <<>>]
        ELSE [payload |-> UnwrapOr(MapGet(map.v, "payload"), JNull),
              note |-> AsStr(MapGet(map.v, "note")),
              metadata |-> MapGet(map.v, "payload"),
              token |-> AsStr(MapGet(map.v, "token")),
              publish_targets |-> parse_publish_targets(MapGet(map.v, "publishTargets"))]

\* the tuple (payload, note, metadata, token, publish_targets), by name
parse_payload_options(opts_value) ==
    LET map == AsObject(opts_value)
    IN  IF ~map.some
        THEN [payload |-> JNull, note |-> None, metadata |-> None, token |-> None,
              publish_targets |-> <<>>]
        ELSE [payload |-> UnwrapOr(MapGet(map.v, "payload"), JNull),
              note |-> AsStr(MapGet(map.v, "note")),
              metadata |-> MapGet(map.v, "metadata"),
              token |-> AsStr(MapGet(map.v, "token")),
              publish_targets |-> parse_publish_targets(MapGet(map.v, "publishTargets"))]

(***************************************************************************)
(* C buffers.  A pointer argument is null or points at bytes; the bytes    *)
(* are valid UTF-8 holding a text, or they are not and CStr::to_str fails  *)
(* with a Utf8Error.  A text handed to serde_json::from_str is blank       *)
(* (empty or white space), a syntax error, or the document of a value.     *)
(***************************************************************************)
NullPtr == [p |-> "null"]
CBuf(text) == [p |-> "bytes", valid |-> TRUE, text |-> text]
BadBuf(e) == [p |-> "bytes", valid |-> FALSE, e |-> e]

BlankText == [k |-> "ws"]
MalformedText(e) == [k |-> "bad", e |-> e]
JsonText(v) == [k |-> "json", v |-> v]

Utf8Error == <<"invalid utf-8 sequence of 1 bytes from index 0">>
SyntaxError == <<"expected value at line 1 column 1">>

string_from_ptr(ptr) ==
    IF ptr = NullPtr THEN Ok(EmptyStr)
    ELSE IF ptr.valid THEN Ok(ptr.text)
    ELSE Err(<<"invalid utf-8: ">> \o ptr.e)

\* text.trim().is_empty(), and serde_json::from_str(&text)
TrimIsEmpty(text) == text.k = "ws"
from_str(text) ==
    IF text.k = "json" THEN Ok(text.v) ELSE Err(<<"invalid json: ">> \o text.e)

parse_json(ptr) ==
    IF ptr = NullPtr THEN Ok(JNull)
    ELSE LET text == string_from_ptr(ptr)
         IN  IF ~text.ok THEN text
             ELSE IF TrimIsEmpty(text.v) THEN Ok(JNull)
             ELSE from_str(text.v)

(***************************************************************************)
(* The config resolver: ConfigInput, default_host, default_token,          *)
(* default_tenant, and the part of dbx_client_new that builds the          *)
(* ClientConfig handed to EventDbxClient::connect.                         *)
(***************************************************************************)
U16Max == 65535

StringFields == {"ip", "host", "token", "tenantId", "tenant", "tenantIdEnv"}
U16Fields == {"port", "protocolVersion"}
U64Fields == {"connectTimeoutMs", "requestTimeoutMs"}
BoolFields == {"noNoise"}
ConfigFields == StringFields \cup U16Fields \cup U64Fields \cup BoolFields

\* serde's Deserialize of one Option<_> field: a missing member and null are None
FieldOk(map, key) ==
    LET m == MapGet(map, key)
    IN  \/ ~m.some
        \/ m.v.t = "null"
        \/ key \in StringFields /\ m.v.t = "str"
        \/ key \in U16Fields /\ m.v.t = "num" /\ m.v.n >= 0 /\ m.v.n <= U16Max
        \/ key \in U64Fields /\ m.v.t = "num" /\ m.v.n >= 0
        \/ key \in BoolFields /\ m.v.t = "bool"

FieldValue(map, key) ==
    LET m == MapGet(map, key)
    IN  IF ~m.some \/ m.v.t = "null" THEN None
        ELSE IF m.v.t = "str" THEN Some(m.v.s)
        ELSE IF m.v.t = "num" THEN Some(m.v.n)
        ELSE Some(m.v.b)

\* serde_json::from_value::<ConfigInput>(Value::Object(map)); unknown members are ignored
ConfigInput(map) ==
    IF \E key \in ConfigFields : ~FieldOk(map, key)
    THEN Err(<<"invalid type or value for a config field">>)
    ELSE Ok([ip |-> FieldValue(map, "ip"),
             host |-> FieldValue(map, "host"),
             port |-> FieldValue(map, "port"),
             token |-> FieldValue(map, "token"),
             tenant_id |-> FieldValue(map, "tenantId"),
             tenant |-> FieldValue(map, "tenant"),
             tenant_id_env |-> FieldValue(map, "tenantIdEnv"),
             no_noise |-> FieldValue(map, "noNoise"),
             connect_timeout_ms |-> FieldValue(map, "connectTimeoutMs"),
             request_timeout_ms |-> FieldValue(map, "requestTimeoutMs"),
             protocol_version |-> FieldValue(map, "protocolVersion")])

\* std::env::var(name).ok() against the process environment e
EnvNames == {"EVENTDBX_HOST", "EVENTDBX_TOKEN", "EVENTDBX_TENANT_ID"}
EnvVar(e, name) == e[name]

\* the legacy alias ip looked at before host
default_host_mut_ip_first(cfg, e) ==
    UnwrapOr(OrElse(cfg.ip, OrElse(cfg.host, EnvVar(e, "EVENTDBX_HOST"))), <<"127.0.0.1">>)

default_host(cfg, e) ==
    UnwrapOr(OrElse(cfg.host, OrElse(cfg.ip, EnvVar(e, "EVENTDBX_HOST"))), <<"127.0.0.1">>)

\* a missing token replaced by the empty string
default_token_mut_empty(cfg, e) ==
    Some(UnwrapOr(OrElse(cfg.token, EnvVar(e, "EVENTDBX_TOKEN")), EmptyStr))

default_token(cfg, e) == OrElse(cfg.token, EnvVar(e, "EVENTDBX_TOKEN"))

default_tenant(cfg, e) ==
    UnwrapOr(OrElse(cfg.tenant_id,
                    OrElse(cfg.tenant,
                           OrElse(cfg.tenant_id_env, EnvVar(e, "EVENTDBX_TENANT_ID")))),
             <<"default">>)

\* ClientConfig::new(host, token) and the with_* calls; a None member was never set,
\* except request_timeout, which with_request_timeout always sets (to None or Some)
ClientConfig(cfg, host, token, e) ==
    [host |-> host,
     token |-> token,
     port |-> cfg.port,
     protocol_version |-> cfg.protocol_version,
     connect_timeout |-> cfg.connect_timeout_ms,
     request_timeout |-> cfg.request_timeout_ms,
     tenant |-> default_tenant(cfg, e),
     noise |-> IF cfg.no_noise.some THEN Some(~cfg.no_noise.v) ELSE None]

\* dbx_client_new from the parse of config_json to the finished client_cfg:
\* Err(message) on the early returns, Ok(client_cfg) when it goes on to Runtime::new
resolve_config(config_json, e) ==
    LET parsed == parse_json(config_json)
    IN  IF ~parsed.ok THEN Err(parsed.e)
        ELSE IF parsed.v.t \notin {"obj", "null"} THEN Err(<<"config must be a JSON object">>)
        ELSE LET config_value == IF parsed.v.t = "obj" THEN parsed.v.o ELSE EmptyMap
                 cfg == ConfigInput(config_value)
             IN  IF ~cfg.ok THEN Err(<<"invalid config: ">> \o cfg.e)
                 ELSE LET host == default_host(cfg.v, e)
                          token == default_token(cfg.v, e)
                      IN  IF ~token.some THEN Err(<<"token is required">>)
                          ELSE Ok(ClientConfig(cfg.v, host, token.v, e))

(***************************************************************************)
(* The inputs of the decoder specifications.                               *)
(***************************************************************************)
NotRun == <<>>

\* tokens of a sort specification, joined by commas into the texts
SortPieces ==
    { <<>>,
      <<" ">>,
      <<"i", "d">>,
      <<"I", "D", ":", "D", "E", "S", "C">>,
      <<" ", "t", "y", "p", "e", " ", ":", " ", "D", "e", "s", "c", "e", "n", "d", "i", "n", "g", " ">>,
      <<"u", "n", "k", "n", "o", "w", "n", ":", "a", "s", "c">>,
      <<"i", "d", ":", "d", "e", "s", "c", ":", "x">>,
      <<"c", "r", "e", "a", "t", "e", "d", "_", "a", "t", ":", "d", "e", "s", "c">>,
      <<"u", "p", "d", "a", "t", "e", "d", "_", "a", "t", ":", "a", "s", "c">>,
      <<"a", "r", "c", "h", "i", "v", "e", "d", ":", " ", "d", "e", "s", "c">>,
      <<"a", "g", "g", "r", "e", "g", "a", "t", "e", "_", "i", "d">>,
      <<"a", "g", "g", "r", "e", "g", "a", "t", "e", "_", "t", "y", "p", "e", ":", "A", "s", "c">>,
      <<":", "d", "e", "s", "c">>,
      <<"I", "d", ":">>,
      <<"i", "d", "x", ":", "d", "e", "s", "c">>,
      <<"t", "y", "p", "e", ":", "d", "e", "s", "c", "e", "n", "d">> }

RECURSIVE SeqsUpTo(_, _)
SeqsUpTo(S, n) ==
    IF n = 0 THEN {<<>>}
    ELSE LET shorter == SeqsUpTo(S, n - 1)
         IN  shorter \cup {Append(s, x) : s \in {t \in shorter : Len(t) = n - 1}, x \in S}

SortTexts == {Join(ps, ",") : ps \in SeqsUpTo(SortPieces, MaxSortTokens)}
SortInputs ==
    {Some(JStr(text)) : text \in SortTexts}
        \cup {None, Some(JNull), Some(JNum(1)), Some(JBool(TRUE)),
              Some(JArr(<<JStr(S_id)>>)), Some(MkObj("sort" :> JStr(S_id)))}

TargetItems ==
    {MkObj(("plugin" :> p) @@ ("mode" :> m) @@ ("priority" :> q)) :
        p \in {Absent, JStr(<<"search">>), JNum(1)},
        m \in {Absent, JStr(<<"event-only">>), JNull},
        q \in {Absent, JStr(<<"high">>)}}
        \cup {JNull, JStr(<<"plugin">>)}
TargetInputs ==
    {Some(JArr(items)) : items \in SeqsUpTo(TargetItems, MaxTargets)}
        \cup {None, Some(JNull), Some(JStr(<<"search">>)),
              Some(MkObj("plugin" :> JStr(<<"search">>)))}

PayloadInputs ==
    {MkObj(("payload" :> p) @@ ("metadata" :> m) @@ ("note" :> n) @@ ("token" :> t)
               @@ ("publishTargets" :> pt)) :
        p \in {Absent, JNull, MkObj("name" :> JStr(<<"Ada">>)), JStr(<<"raw">>)},
        m \in {Absent, JNull, MkObj("@source" :> JStr(<<"test">>))},
        n \in {Absent, JStr(<<"demo">>), JNum(7)},
        t \in {Absent, JStr(<<"abc">>), JBool(TRUE)},
        pt \in {Absent, JStr(<<"search">>), JArr(<<>>),
                JArr(<<MkObj(("plugin" :> JStr(<<"search">>)) @@ ("mode" :> JStr(<<"all">>))),
                       JNull,
                       MkObj("plugin" :> JStr(<<"analytics">>))>>)}}
        \cup {JNull, JArr(<<>>), JStr(<<"payload">>), JNum(0)}

ConfigEnvs == [EnvNames -> {None, Some(EmptyStr), Some(<<"from-env">>)}]
ConfigExtras ==
    {<<>>,
     ("port" :> JNum(6363)) @@ ("protocolVersion" :> JNum(1)) @@ ("noNoise" :> JBool(TRUE))
         @@ ("connectTimeoutMs" :> JNum(500)) @@ ("requestTimeoutMs" :> JNum(0)),
     ("port" :> JNum(U16Max + 1)) @@ ("noNoise" :> JNull)}
ConfigObjects ==
    {MkObj(("host" :> h) @@ ("ip" :> i) @@ ("token" :> t) @@ ("tenantId" :> ti)
               @@ ("tenant" :> te) @@ ("tenantIdEnv" :> tie) @@ x) :
        h \in {Absent, JStr(EmptyStr), JStr(<<"h.example">>)},
        i \in {Absent, JStr(EmptyStr), JStr(<<"10.0.0.1">>)},
        t \in {Absent, JStr(EmptyStr), JStr(<<"secret">>), JNum(7)},
        ti \in {Absent, JStr(EmptyStr), JStr(<<"tenant-id">>)},
        te \in {Absent, JStr(EmptyStr), JStr(<<"tenant">>)},
        tie \in {Absent, JStr(EmptyStr), JStr(<<"tenant-id-env">>)},
        x \in ConfigExtras}
ConfigBuffers ==
    {CBuf(JsonText(o)) : o \in ConfigObjects}
        \cup {NullPtr, BadBuf(Utf8Error), CBuf(BlankText), CBuf(MalformedText(SyntaxError)),
              CBuf(JsonText(JNull)), CBuf(JsonText(JArr(<<>>))), CBuf(JsonText(JNum(1)))}
ConfigInputs == [config_json : ConfigBuffers, env : ConfigEnvs]

(***************************************************************************)
(* The error/ownership protocol.  A call works on a frame: whether its     *)
(* error_out argument is non-null, what the slot it points at holds, and   *)
(* what the call has done so far to the slot and the heap.                 *)
(*   writes: the values stored through error_out, in order                 *)
(*   allocs: the CStrings released to the caller by into_raw, in order;    *)
(*           the i-th gets the buffer id base + i                          *)
(*   freed:  the pointers the call has reclaimed with CString::from_raw    *)
(***************************************************************************)
NULL == 0
GARBAGE == -1       \* a slot the caller never initialised
NUL == "<NUL>"      \* the zero byte inside a message

Frame(error_out, slot0, base) ==
    [out |-> error_out, slot |-> slot0, base |-> base,
     writes |-> <<>>, allocs |-> <<>>, freed |-> {}]

NextBuffer(f) == f.base + Len(f.allocs) + 1

\* the slot left as it was
clear_error_mut_keep(f) == f

\* the slot's old message freed before the slot is cleared
clear_error_mut_free(f) ==
    IF ~f.out THEN f
    ELSE [f EXCEPT !.slot = NULL, !.writes = Append(@, NULL),
                   !.freed = IF f.slot # NULL THEN @ \cup {f.slot} ELSE @]

clear_error(f) ==
    IF ~f.out THEN f
    ELSE [f EXCEPT !.slot = NULL, !.writes = Append(@, NULL)]

\* CString::new(msg) fails on an interior zero byte
HasNul(msg) == \E i \in 1..Len(msg) : msg[i] = NUL

set_error(f, msg) ==
    IF ~f.out THEN f
    ELSE LET cstr == IF HasNul(msg) THEN <<"ffi error">> ELSE msg
         IN  [f EXCEPT !.allocs = Append(@, [kind |-> "error", text |-> cstr]),
                       !.slot = NextBuffer(f),
                       !.writes = Append(@, NextBuffer(f))]

\* ser: how serde_json::to_string and CString::new come out for this value
to_cstring(json, ser) ==
    IF ser = "serialize" THEN Err(<<"failed to serialize json: ", "error">>)
    ELSE IF ser = "nul" THEN Err(<<"failed to build c string: ", "nul byte found">>)
    ELSE Ok(json)

\* what a handler leaves behind: its return value, its frame, its calls on the
\* runtime and the client, and the DbxHandle it boxed (dbx_client_new only)
Outcome(ret, f, events, boxed) == [ret |-> ret, f |-> f, events |-> events, boxed |-> boxed]

\* set_error(error_out, msg); return std::ptr::null_mut();
Fail(f, msg, events) == Outcome(NULL, set_error(f, msg), events, None)

\* match to_cstring(payload) { Ok(ptr) => ptr, Err(err) => { set_error; null } }
encode_result(f, payload, events, ser) ==
    LET c == to_cstring(payload, ser)
    IN  IF c.ok
        THEN Outcome(NextBuffer(f),
                     [f EXCEPT !.allocs = Append(@, [kind |-> "result", text |-> c.v])],
                     events, None)
        ELSE Fail(f, c.e, events)

\* runtime.block_on(client.<call>(req)) on the handle's runtime and client
Request(handle, call, req, resp) ==
    [ev |-> "request", handle |-> handle, call |-> call, req |-> req, resp |-> resp]

(***************************************************************************)
(* dbx_client_new and dbx_client_free                                      *)
(***************************************************************************)
\* the connect step with a runtime that outlives a failed connect
connect_step_mut_leak(f, client_cfg, ext, rid, hid) ==
    IF ~ext.rt.ok
    THEN Fail(f, <<"failed to create runtime: ">> \o ext.rt.e, <<>>)
    ELSE LET created == [ev |-> "runtime_new", rt |-> rid]
             connect == [ev |-> "connect", rt |-> rid, cfg |-> client_cfg, resp |-> ext.conn]
         IN  IF ~ext.conn.ok
             THEN Fail(f, <<"failed to connect: ">> \o ext.conn.e, <<created, connect>>)
             ELSE Outcome(hid, f, <<created, connect>>,
                          Some([runtime |-> rid, client |-> client_cfg]))

\* Runtime::new(), runtime.block_on(EventDbxClient::connect(client_cfg)) and
\* Box::into_raw; the local runtime is dropped when the function returns early
connect_step(f, client_cfg, ext, rid, hid) ==
    IF ~ext.rt.ok
    THEN Fail(f, <<"failed to create runtime: ">> \o ext.rt.e, <<>>)
    ELSE LET created == [ev |-> "runtime_new", rt |-> rid]
             connect == [ev |-> "connect", rt |-> rid, cfg |-> client_cfg, resp |-> ext.conn]
             dropped == [ev |-> "runtime_drop", rt |-> rid]
         IN  IF ~ext.conn.ok
             THEN Fail(f, <<"failed to connect: ">> \o ext.conn.e,
                       <<created, connect, dropped>>)
             ELSE Outcome(hid, f, <<created, connect>>,
                          Some([runtime |-> rid, client |-> client_cfg]))

\* e: the process environment; ext: how Runtime::new and connect come out;
\* rid, hid: the identities of the runtime and of the box, if they get made
dbx_client_new(f0, config_json, e, ext, rid, hid) ==
    LET f == clear_error(f0)
        client_cfg == resolve_config(config_json, e)
    IN  IF ~client_cfg.ok THEN Fail(f, client_cfg.e, <<>>)
        ELSE connect_step(f, client_cfg.v, ext, rid, hid)

\* drop(Box::from_raw(handle)) drops the runtime and the client
dbx_client_free(f, handle, rt) ==
    IF handle = NULL THEN Outcome(NULL, f, <<>>, None)
    ELSE Outcome(NULL, f, <<[ev |-> "handle_drop", handle |-> handle],
                            [ev |-> "runtime_drop", rt |-> rt]>>, None)

dbx_string_free(f, ptr) ==
    IF ptr = NULL THEN Outcome(NULL, f, <<>>, None)
    ELSE Outcome(NULL, [f EXCEPT !.freed = @ \cup {ptr}], <<>>, None)

(***************************************************************************)
(* The nine operations.  Each handler takes the frame of the call, the     *)
(* arguments of the C signature, and ext: how the client answers the       *)
(* request (ext.resp) and how to_cstring comes out (ext.ser), read only    *)
(* if the handler gets that far.                                           *)
(***************************************************************************)
HandleIsNull == <<"handle is null">>

ListAggregatesOptionsDefault ==
    [cursor |-> None, take |-> None, filter |-> None, include_archived |-> FALSE,
     archived_only |-> FALSE, token |-> None, sort |-> <<>>]

\* the synthesized filter put in place of an explicit one
list_aggregates_options_mut_override(opts_value, agg_type) ==
    LET map == AsObject(opts_value)
        opts == IF ~map.some THEN ListAggregatesOptionsDefault
                ELSE [cursor |-> AsStr(MapGet(map.v, "cursor")),
                      take |-> AsU64(MapGet(map.v, "take")),
                      filter |-> AsStr(MapGet(map.v, "filter")),
                      include_archived |-> UnwrapOr(AsBool(MapGet(map.v, "includeArchived")), FALSE),
                      archived_only |-> UnwrapOr(AsBool(MapGet(map.v, "archivedOnly")), FALSE),
                      token |-> AsStr(MapGet(map.v, "token")),
                      sort |-> parse_sort(MapGet(map.v, "sort"))]
    IN  IF agg_type.some
        THEN [opts EXCEPT !.filter = Some(<<"aggregate_type = \"">> \o agg_type.v \o <<"\"">>)]
        ELSE opts

\* the ListAggregatesOptions built from the decoded options and the aggregate type
list_aggregates_options(opts_value, agg_type) ==
    LET map == AsObject(opts_value)
        opts == IF ~map.some THEN ListAggregatesOptionsDefault
                ELSE [cursor |-> AsStr(MapGet(map.v, "cursor")),
                      take |-> AsU64(MapGet(map.v, "take")),
                      filter |-> AsStr(MapGet(map.v, "filter")),
                      include_archived |-> UnwrapOr(AsBool(MapGet(map.v, "includeArchived")), FALSE),
                      archived_only |-> UnwrapOr(AsBool(MapGet(map.v, "archivedOnly")), FALSE),
                      token |-> AsStr(MapGet(map.v, "token")),
                      sort |-> parse_sort(MapGet(map.v, "sort"))]
    IN  IF agg_type.some /\ ~opts.filter.some
        THEN [opts EXCEPT !.filter = Some(<<"aggregate_type = \"">> \o agg_type.v \o <<"\"">>)]
        ELSE opts

dbx_list_aggregates(f0, handle, aggregate_type, options_json, ext) ==
    LET f == clear_error(f0)
        agg_type == string_from_ptr(aggregate_type)
        opts_value == parse_json(options_json)
    IN  IF handle = NULL THEN Fail(f, HandleIsNull, <<>>)
        ELSE IF ~agg_type.ok THEN Fail(f, agg_type.e, <<>>)
        ELSE IF ~opts_value.ok THEN Fail(f, opts_value.e, <<>>)
        ELSE LET opts == list_aggregates_options(
                             opts_value.v,
                             IF agg_type.v = EmptyStr THEN None ELSE Some(agg_type.v))
                 events == <<Request(handle, "list_aggregates", opts, ext.resp)>>
             IN  IF ~ext.resp.ok THEN Fail(f, ext.resp.e, events)
                 ELSE encode_result(
                          f,
                          JObj(("items" :> ext.resp.v.aggregates)
                               @@ ("nextCursor" :> IF ext.resp.v.next_cursor.some
                                                   THEN JStr(ext.resp.v.next_cursor.v)
                                                   ELSE JNull)),
                          events, ext.ser)

\* a failed request submitted a second time before the failure is reported
dbx_get_aggregate_mut_retry(f0, handle, aggregate_type, aggregate_id, ext) ==
    LET f == clear_error(f0)
        agg_type == string_from_ptr(aggregate_type)
        agg_id == string_from_ptr(aggregate_id)
    IN  IF handle = NULL THEN Fail(f, HandleIsNull, <<>>)
        ELSE IF ~agg_type.ok THEN Fail(f, agg_type.e, <<>>)
        ELSE IF ~agg_id.ok THEN Fail(f, agg_id.e, <<>>)
        ELSE LET events == <<Request(handle, "get_aggregate",
                                     [aggregate_type |-> agg_type.v, aggregate_id |-> agg_id.v],
                                     ext.resp)>>
             IN  IF ~ext.resp.ok THEN Fail(f, ext.resp.e, events \o events)
                 ELSE encode_result(
                          f,
                          JObj(("found" :> JBool(ext.resp.v.found))
                               @@ ("aggregate" :> UnwrapOr(ext.resp.v.aggregate, JNull))),
                          events, ext.ser)

dbx_get_aggregate(f0, handle, aggregate_type, aggregate_id, ext) ==
    LET f == clear_error(f0)
        agg_type == string_from_ptr(aggregate_type)
        agg_id == string_from_ptr(aggregate_id)
    IN  IF handle = NULL THEN Fail(f, HandleIsNull, <<>>)
        ELSE IF ~agg_type.ok THEN Fail(f, agg_type.e, <<>>)
        ELSE IF ~agg_id.ok THEN Fail(f, agg_id.e, <<>>)
        ELSE LET events == <<Request(handle, "get_aggregate",
                                     [aggregate_type |-> agg_type.v, aggregate_id |-> agg_id.v],
                                     ext.resp)>>
             IN  IF ~ext.resp.ok THEN Fail(f, ext.resp.e, events)
                 ELSE encode_result(
                          f,
                          JObj(("found" :> JBool(ext.resp.v.found))
                               @@ ("aggregate" :> UnwrapOr(ext.resp.v.aggregate, JNull))),
                          events, ext.ser)

\* items.into_iter().filter_map(|v| v.as_str().map(|s| s.to_string())).collect()
RECURSIVE FilterMapStr(_)
FilterMapStr(items) ==
    IF items = <<>> THEN <<>>
    ELSE (IF Head(items).t = "str" THEN <<Head(items).s>> ELSE <<>>) \o FilterMapStr(Tail(items))

dbx_select_aggregate(f0, handle, aggregate_type, aggregate_id, fields_json, ext) ==
    LET f == clear_error(f0)
        agg_type == string_from_ptr(aggregate_type)
        agg_id == string_from_ptr(aggregate_id)
        fields_value == parse_json(fields_json)
    IN  IF handle = NULL THEN Fail(f, HandleIsNull, <<>>)
        ELSE IF ~agg_type.ok THEN Fail(f, agg_type.e, <<>>)
        ELSE IF ~agg_id.ok THEN Fail(f, agg_id.e, <<>>)
        ELSE IF ~fields_value.ok THEN Fail(f, fields_value.e, <<>>)
        ELSE IF fields_value.v.t \notin {"arr", "null"}
             THEN Fail(f, <<"fields must be an array of strings">>, <<>>)
        ELSE LET fields == IF fields_value.v.t = "arr" THEN FilterMapStr(fields_value.v.a)
                           ELSE <<>>
                 events == <<Request(handle, "select_aggregate",
                                     [aggregate_type |-> agg_type.v, aggregate_id |-> agg_id.v,
                                      fields |-> fields],
                                     ext.resp)>>
             IN  IF ~ext.resp.ok THEN Fail(f, ext.resp.e, events)
                 ELSE encode_result(
                          f,
                          JObj(("found" :> JBool(ext.resp.v.found))
                               @@ ("selection" :> UnwrapOr(ext.resp.v.selection, JNull))),
                          events, ext.ser)

ListEventsOptionsDefault == [cursor |-> None, take |-> None, filter |-> None, token |-> None]

list_events_options(opts_value) ==
    LET map == AsObject(opts_value)
    IN  IF ~map.some THEN ListEventsOptionsDefault
        ELSE [cursor |-> AsStr(MapGet(map.v, "cursor")),
              take |-> AsU64(MapGet(map.v, "take")),
              filter |-> AsStr(MapGet(map.v, "filter")),
              token |-> AsStr(MapGet(map.v, "token"))]

dbx_list_events(f0, handle, aggregate_type, aggregate_id, options_json, ext) ==
    LET f == clear_error(f0)
        agg_type == string_from_ptr(aggregate_type)
        agg_id == string_from_ptr(aggregate_id)
        opts_value == parse_json(options_json)
    IN  IF handle = NULL THEN Fail(f, HandleIsNull, <<>>)
        ELSE IF ~agg_type.ok THEN Fail(f, agg_type.e, <<>>)
        ELSE IF ~agg_id.ok THEN Fail(f, agg_id.e, <<>>)
        ELSE IF ~opts_value.ok THEN Fail(f, opts_value.e, <<>>)
        ELSE LET events == <<Request(handle, "list_events",
                                     [aggregate_type |-> agg_type.v, aggregate_id |-> agg_id.v,
                                      opts |-> list_events_options(opts_value.v)],
                                     ext.resp)>>
             IN  IF ~ext.resp.ok THEN Fail(f, ext.resp.e, events)
                 ELSE encode_result(
                          f,
                          JObj(("items" :> ext.resp.v.events)
                               @@ ("nextCursor" :> IF ext.resp.v.next_cursor.some
                                                   THEN JStr(ext.resp.v.next_cursor.v)
                                                   ELSE JNull)),
                          events, ext.ser)

\* the payload handed on as it was decoded
NullToEmptyObject_mut_keep(payload) == payload

\* match payload { Value::Null => Value::Object(Map::new()), other => other }
NullToEmptyObject(payload) == IF payload = JNull THEN JObj(EmptyMap) ELSE payload

\* AppendEventRequest::new / CreateAggregateRequest::new and the four assignments
write_request(agg_type, agg_id, evt_type, opts_value) ==
    LET o == parse_payload_options(opts_value)
    IN  [aggregate_type |-> agg_type, aggregate_id |-> agg_id, event_type |-> evt_type,
         payload |-> NullToEmptyObject(o.payload),
         note |-> o.note, metadata |-> o.metadata, token |-> o.token,
         publish_targets |-> o.publish_targets]

dbx_append_event(f0, handle, aggregate_type, aggregate_id, event_type, options_json, ext) ==
    LET f == clear_error(f0)
        agg_type == string_from_ptr(aggregate_type)
        agg_id == string_from_ptr(aggregate_id)
        evt_type == string_from_ptr(event_type)
        opts_value == parse_json(options_json)
    IN  IF handle = NULL THEN Fail(f, HandleIsNull, <<>>)
        ELSE IF ~agg_type.ok THEN Fail(f, agg_type.e, <<>>)
        ELSE IF ~agg_id.ok THEN Fail(f, agg_id.e, <<>>)
        ELSE IF ~evt_type.ok THEN Fail(f, evt_type.e, <<>>)
        ELSE IF ~opts_value.ok THEN Fail(f, opts_value.e, <<>>)
        ELSE LET events == <<Request(handle, "append_event",
                                     write_request(agg_type.v, agg_id.v, evt_type.v, opts_value.v),
                                     ext.resp)>>
             IN  IF ~ext.resp.ok THEN Fail(f, ext.resp.e, events)
                 ELSE encode_result(f, JObj("event" :> ext.resp.v.event), events, ext.ser)

dbx_create_aggregate(f0, handle, aggregate_type, aggregate_id, event_type, options_json, ext) ==
    LET f == clear_error(f0)
        agg_type == string_from_ptr(aggregate_type)
        agg_id == string_from_ptr(aggregate_id)
        evt_type == string_from_ptr(event_type)
        opts_value == parse_json(options_json)
    IN  IF handle = NULL THEN Fail(f, HandleIsNull, <<>>)
        ELSE IF ~agg_type.ok THEN Fail(f, agg_type.e, <<>>)
        ELSE IF ~agg_id.ok THEN Fail(f, agg_id.e, <<>>)
        ELSE IF ~evt_type.ok THEN Fail(f, evt_type.e, <<>>)
        ELSE IF ~opts_value.ok THEN Fail(f, opts_value.e, <<>>)
        ELSE LET events == <<Request(handle, "create_aggregate",
                                     write_request(agg_type.v, agg_id.v, evt_type.v, opts_value.v),
                                     ext.resp)>>
             IN  IF ~ext.resp.ok THEN Fail(f, ext.resp.e, events)
                 ELSE encode_result(f, JObj("aggregate" :> ext.resp.v.aggregate), events, ext.ser)

\* PatchEventRequest::new and the four assignments; the options' payload is discarded
patch_request(agg_type, agg_id, evt_type, patch_value, opts_value) ==
    LET o == parse_payload_options(opts_value)
    IN  [aggregate_type |-> agg_type, aggregate_id |-> agg_id, event_type |-> evt_type,
         patch |-> patch_value,
         note |-> o.note, metadata |-> o.metadata, token |-> o.token,
         publish_targets |-> o.publish_targets]

\* the options parsed before the patch body
dbx_patch_event_mut_options_first(f0, handle, aggregate_type, aggregate_id, event_type, patch_json, options_json, ext) ==
    LET f == clear_error(f0)
        agg_type == string_from_ptr(aggregate_type)
        agg_id == string_from_ptr(aggregate_id)
        evt_type == string_from_ptr(event_type)
        patch_value == parse_json(patch_json)
        opts_value == parse_json(options_json)
    IN  IF handle = NULL THEN Fail(f, HandleIsNull, <<>>)
        ELSE IF ~agg_type.ok THEN Fail(f, agg_type.e, <<>>)
        ELSE IF ~agg_id.ok THEN Fail(f, agg_id.e, <<>>)
        ELSE IF ~evt_type.ok THEN Fail(f, evt_type.e, <<>>)
        ELSE IF ~opts_value.ok THEN Fail(f, opts_value.e, <<>>)
        ELSE IF ~patch_value.ok THEN Fail(f, patch_value.e, <<>>)
        ELSE LET events == <<Request(handle, "patch_event",
                                     patch_request(agg_type.v, agg_id.v, evt_type.v,
                                                   patch_value.v, opts_value.v),
                                     ext.resp)>>
             IN  IF ~ext.resp.ok THEN Fail(f, ext.resp.e, events)
                 ELSE encode_result(f, JObj("event" :> ext.resp.v.event), events, ext.ser)

dbx_patch_event(f0, handle, aggregate_type, aggregate_id, event_type, patch_json, options_json, ext) ==
    LET f == clear_error(f0)
        agg_type == string_from_ptr(aggregate_type)
        agg_id == string_from_ptr(aggregate_id)
        evt_type == string_from_ptr(event_type)
        patch_value == parse_json(patch_json)
        opts_value == parse_json(options_json)
    IN  IF handle = NULL THEN Fail(f, HandleIsNull, <<>>)
        ELSE IF ~agg_type.ok THEN Fail(f, agg_type.e, <<>>)
        ELSE IF ~agg_id.ok THEN Fail(f, agg_id.e, <<>>)
        ELSE IF ~evt_type.ok THEN Fail(f, evt_type.e, <<>>)
        ELSE IF ~patch_value.ok THEN Fail(f, patch_value.e, <<>>)
        ELSE IF ~opts_value.ok THEN Fail(f, opts_value.e, <<>>)
        ELSE LET events == <<Request(handle, "patch_event",
                                     patch_request(agg_type.v, agg_id.v, evt_type.v,
                                                   patch_value.v, opts_value.v),
                                     ext.resp)>>
             IN  IF ~ext.resp.ok THEN Fail(f, ext.resp.e, events)
                 ELSE encode_result(f, JObj("event" :> ext.resp.v.event), events, ext.ser)

\* SetAggregateArchiveRequest::new and the two assignments made for an object
archive_request(agg_type, agg_id, archived, opts_value) ==
    LET map == AsObject(opts_value)
    IN  [aggregate_type |-> agg_type, aggregate_id |-> agg_id, archived |-> archived,
         note |-> IF map.some THEN AsStr(MapGet(map.v, "note")) ELSE None,
         token |-> IF map.some THEN AsStr(MapGet(map.v, "token")) ELSE None]

dbx_set_archive(f0, handle, aggregate_type, aggregate_id, archived, options_json, ext) ==
    LET f == clear_error(f0)
        agg_type == string_from_ptr(aggregate_type)
        agg_id == string_from_ptr(aggregate_id)
        opts_value == parse_json(options_json)
    IN  IF handle = NULL THEN Fail(f, HandleIsNull, <<>>)
        ELSE IF ~agg_type.ok THEN Fail(f, agg_type.e, <<>>)
        ELSE IF ~agg_id.ok THEN Fail(f, agg_id.e, <<>>)
        ELSE IF ~opts_value.ok THEN Fail(f, opts_value.e, <<>>)
        ELSE LET events == <<Request(handle, "set_aggregate_archive",
                                     archive_request(agg_type.v, agg_id.v, archived, opts_value.v),
                                     ext.resp)>>
             IN  IF ~ext.resp.ok THEN Fail(f, ext.resp.e, events)
                 ELSE encode_result(f, JObj("aggregate" :> ext.resp.v.aggregate), events, ext.ser)

\* the handle looked at only after the strings are decoded
dbx_verify_aggregate_mut_late_null_check(f0, handle, aggregate_type, aggregate_id, ext) ==
    LET f == clear_error(f0)
        agg_type == string_from_ptr(aggregate_type)
        agg_id == string_from_ptr(aggregate_id)
    IN  IF ~agg_type.ok THEN Fail(f, agg_type.e, <<>>)
        ELSE IF ~agg_id.ok THEN Fail(f, agg_id.e, <<>>)
        ELSE IF handle = NULL THEN Fail(f, HandleIsNull, <<>>)
        ELSE LET events == <<Request(handle, "verify_aggregate",
                                     [aggregate_type |-> agg_type.v, aggregate_id |-> agg_id.v],
                                     ext.resp)>>
             IN  IF ~ext.resp.ok THEN Fail(f, ext.resp.e, events)
                 ELSE encode_result(f, JObj("merkleRoot" :> JStr(ext.resp.v.merkle_root)),
                                    events, ext.ser)

dbx_verify_aggregate(f0, handle, aggregate_type, aggregate_id, ext) ==
    LET f == clear_error(f0)
        agg_type == string_from_ptr(aggregate_type)
        agg_id == string_from_ptr(aggregate_id)
    IN  IF handle = NULL THEN Fail(f, HandleIsNull, <<>>)
        ELSE IF ~agg_type.ok THEN Fail(f, agg_type.e, <<>>)
        ELSE IF ~agg_id.ok THEN Fail(f, agg_id.e, <<>>)
        ELSE LET events == <<Request(handle, "verify_aggregate",
                                     [aggregate_type |-> agg_type.v, aggregate_id |-> agg_id.v],
                                     ext.resp)>>
             IN  IF ~ext.resp.ok THEN Fail(f, ext.resp.e, events)
                 ELSE encode_result(f, JObj("merkleRoot" :> JStr(ext.resp.v.merkle_root)),
                                    events, ext.ser)

(***************************************************************************)
(* The caller and the client, as far as the bridge sees them: the          *)
(* arguments the caller passes, the process environment, the answers of    *)
(* the runtime and of the client.                                          *)
(***************************************************************************)
\* each argument position has its own invalid bytes and its own syntax error, so
\* that the message of a failed call tells which argument was rejected
Utf8ErrorInId == <<"invalid utf-8 sequence of 1 bytes from index 1">>
Utf8ErrorInEvent == <<"invalid utf-8 sequence of 1 bytes from index 2">>
Utf8ErrorInJson == <<"invalid utf-8 sequence of 1 bytes from index 3">>
SyntaxErrorInOptions == <<"EOF while parsing an object at line 1 column 1">>
StringArgs == {NullPtr, BadBuf(Utf8Error), CBuf(<<"order">>)}
IdArgs == {NullPtr, BadBuf(Utf8ErrorInId), CBuf(<<"o-1">>)}
EventArgs == {NullPtr, BadBuf(Utf8ErrorInEvent), CBuf(<<"created">>)}
TypeArgs == StringArgs \cup {CBuf(EmptyStr), CBuf(<<"a", "\"", "b">>)}
JsonArgs(docs) ==
    {NullPtr, BadBuf(Utf8ErrorInJson), CBuf(BlankText), CBuf(MalformedText(SyntaxError))}
        \cup {CBuf(JsonText(v)) : v \in docs}

ListOptionDocs ==
    {MkObj(("filter" :> JStr(<<"archived = false">>)) @@ ("take" :> JNum(5))
               @@ ("sort" :> JStr(<<"i", "d", ":", "d", "e", "s", "c">>))
               @@ ("includeArchived" :> JBool(TRUE))),
     MkObj(("filter" :> JNum(1)) @@ ("take" :> JNum(5))),
     MkObj("cursor" :> JStr(<<"c1">>)),
     MkObj("filter" :> JStr(EmptyStr)),
     JArr(<<>>)}
FieldsDocs ==
    {JArr(<<JStr(<<"name">>), JStr(<<"email">>)>>), JArr(<<JStr(<<"name">>), JNum(1)>>),
     JStr(<<"name">>), MkObj("name" :> JBool(TRUE))}
EventOptionDocs ==
    {MkObj(("cursor" :> JStr(<<"c1">>)) @@ ("token" :> JStr(<<"abc">>))), JNum(3)}
WriteOptionDocs ==
    {MkObj(("payload" :> MkObj("name" :> JStr(<<"Ada">>))) @@ ("note" :> JStr(<<"demo">>))
               @@ ("publishTargets" :> JArr(<<MkObj("plugin" :> JStr(<<"search">>))>>))),
     MkObj(("payload" :> JNull) @@ ("token" :> JStr(<<"abc">>))),
     MkObj("payload" :> JStr(<<"raw">>)),
     MkObj("note" :> JStr(<<"demo">>)),
     JArr(<<>>)}
PatchDocs == {JNull, JArr(<<MkObj("op" :> JStr(<<"remove">>))>>)}
PatchArgs ==
    {NullPtr, CBuf(BlankText), CBuf(MalformedText(SyntaxError))}
        \cup {CBuf(JsonText(v)) : v \in PatchDocs}
PatchOptionArgs ==
    {NullPtr, CBuf(MalformedText(SyntaxErrorInOptions)),
     CBuf(JsonText(MkObj(("payload" :> JStr(<<"ignored">>)) @@ ("note" :> JStr(<<"fix">>))))),
     CBuf(JsonText(JNum(3)))}
ArchiveOptionDocs == {MkObj("note" :> JStr(<<"cleanup">>)), JStr(<<"note">>)}

BridgeConfigs ==
    {NullPtr, BadBuf(Utf8Error), CBuf(MalformedText(SyntaxError)),
     CBuf(JsonText(JArr(<<>>))),
     CBuf(JsonText(MkObj("token" :> JNum(7)))),
     CBuf(JsonText(MkObj(("token" :> JStr(<<"secret">>)) @@ ("port" :> JNum(6363))))),
     CBuf(JsonText(MkObj("host" :> JStr(<<"h.example">>))))}
BridgeEnvs ==
    {[n \in EnvNames |-> None], [n \in EnvNames |-> Some(<<"from-env">>)]}

ClientErrors == {<<"request timed out">>, <<"server said: ", NUL>>}
NewExts ==
    {[rt |-> Err(<<"too many open files">>), conn |-> Ok("connected")],
     [rt |-> Ok("runtime"), conn |-> Err(<<"connection refused">>)],
     [rt |-> Ok("runtime"), conn |-> Ok("connected")]}

ListAggregatesResponses ==
    {Ok([aggregates |-> JArr(<<>>), next_cursor |-> Some(<<"c2">>)])}
GetAggregateResponses ==
    {Ok([found |-> FALSE, aggregate |-> None]),
     Ok([found |-> TRUE, aggregate |-> Some(MkObj("id" :> JStr(<<"o-1">>)))])}
SelectAggregateResponses ==
    {Ok([found |-> TRUE, selection |-> Some(MkObj("name" :> JStr(<<"Ada">>)))])}
ListEventsResponses == {Ok([events |-> JArr(<<>>), next_cursor |-> None])}
EventResponses == {Ok([event |-> MkObj("version" :> JNum(1))])}
AggregateResponses == {Ok([aggregate |-> MkObj("version" :> JNum(1))])}
VerifyResponses == {Ok([merkle_root |-> <<"9f86d0">>])}

\* ext when the handler never reads it
UnusedExt == [resp |-> Err(<<"unused">>), ser |-> "ok"]
\* the ways a submitted request can end: the client fails, or it answers and
\* to_cstring succeeds or fails
Exts(responses) ==
    {[resp |-> Err(e), ser |-> "ok"] : e \in ClientErrors}
        \cup {[resp |-> r, ser |-> s] : r \in responses, s \in {"ok", "serialize", "nul"}}
\* r0: the outcome under UnusedExt; ext matters only if the client was called
ExtChoices(r0, responses) == IF r0.events = <<>> THEN {UnusedExt} ELSE Exts(responses)

(***************************************************************************)
(* The bridge as a state machine.                                          *)
(***************************************************************************)
NoCall ==
    [op |-> "none", handle |-> NULL, error_out |-> FALSE, args |-> <<>>, slot0 |-> NULL,
     base |-> 0, ret |-> NULL, writes |-> <<>>, allocs |-> <<>>, freed |-> {},
     events |-> <<>>, boxed |-> None]

DecoderIdle == arg = NotRun /\ out = NotRun
ThreadsIdle == threads = <<>> /\ clients = <<>>
BridgeIdle ==
    /\ handles = <<>>
    /\ runtimes = {}
    /\ heap = <<>>
    /\ owned = {}
    /\ slot = NULL
    /\ pc = "idle"
    /\ last = NoCall

Init ==
    /\ DecoderIdle
    /\ ThreadsIdle
    /\ handles = <<>>
    /\ runtimes = {}
    /\ heap = <<>>
    /\ owned = {}
    /\ slot \in {NULL, GARBAGE}
    /\ pc = "idle"
    /\ last = NoCall

LiveHandles == {h \in DOMAIN handles : handles[h].live}
HandleArgs == {NULL} \cup LiveHandles
CallFrame(error_out) == Frame(error_out, slot, Len(heap))

EventsOf(r, kind) == {r.events[i] : i \in {j \in DOMAIN r.events : r.events[j].ev = kind}}

\* the state after a call with outcome r
Returns(op, handle, error_out, args, r) ==
    /\ Len(heap) + Len(r.f.allocs) <= MaxBuffers
    /\ heap' = [i \in 1..(Len(heap) + Len(r.f.allocs)) |->
                   IF i <= Len(heap)
                   THEN heap[i] + (IF i \in r.f.freed THEN 1 ELSE 0)
                   ELSE 0]
    /\ slot' = r.f.slot
    /\ runtimes' = (runtimes \cup {e.rt : e \in EventsOf(r, "runtime_new")})
                       \ {e.rt : e \in EventsOf(r, "runtime_drop")}
    /\ handles' = IF r.boxed.some
                  THEN Append(handles, [live |-> TRUE, runtime |-> r.boxed.v.runtime])
                  ELSE [h \in DOMAIN handles |->
                           IF h \in {e.handle : e \in EventsOf(r, "handle_drop")}
                           THEN [handles[h] EXCEPT !.live = FALSE]
                           ELSE handles[h]]
    /\ pc' = "returned"
    /\ last' = [op |-> op, handle |-> handle, error_out |-> error_out, args |-> args,
                slot0 |-> slot, base |-> Len(heap), ret |-> r.ret, writes |-> r.f.writes,
                allocs |-> r.f.allocs, freed |-> r.f.freed, events |-> r.events,
                boxed |-> r.boxed]
    /\ UNCHANGED <<decoderVars, threadVars>>

FreeRuntimeIds == (1..(MaxHandles + 1)) \ runtimes
NewRuntimeId == CHOOSE i \in FreeRuntimeIds : \A j \in FreeRuntimeIds : i <= j

ClientNew ==
    /\ pc = "idle"
    /\ Len(handles) < MaxHandles
    /\ FreeRuntimeIds # {}
    /\ \E error_out \in BOOLEAN, config_json \in BridgeConfigs, e \in BridgeEnvs, ext \in NewExts :
          Returns("dbx_client_new", NULL, error_out, <<config_json, e>>,
                  dbx_client_new(CallFrame(error_out), config_json, e, ext,
                                 NewRuntimeId, Len(handles) + 1))
    /\ UNCHANGED owned

ClientFree ==
    /\ pc = "idle"
    /\ \E handle \in HandleArgs :
          Returns("dbx_client_free", handle, FALSE, <<>>,
                  dbx_client_free(CallFrame(FALSE), handle,
                                  IF handle = NULL THEN NULL ELSE handles[handle].runtime))
    /\ UNCHANGED owned

\* the caller releases a buffer it holds, or passes null
StringFree ==
    /\ pc = "idle"
    /\ \E ptr \in owned \cup {NULL} :
          /\ Returns("dbx_string_free", NULL, FALSE, <<ptr>>,
                     dbx_string_free(CallFrame(FALSE), ptr))
          /\ owned' = owned \ {ptr}

ListAggregates ==
    /\ pc = "idle"
    /\ \E handle \in HandleArgs, error_out \in BOOLEAN, aggregate_type \in TypeArgs,
          options_json \in JsonArgs(ListOptionDocs) :
          \E ext \in ExtChoices(dbx_list_aggregates(CallFrame(error_out), handle, aggregate_type,
                                                    options_json, UnusedExt),
                                ListAggregatesResponses) :
             Returns("dbx_list_aggregates", handle, error_out, <<aggregate_type, options_json>>,
                     dbx_list_aggregates(CallFrame(error_out), handle, aggregate_type,
                                         options_json, ext))
    /\ UNCHANGED owned

GetAggregate ==
    /\ pc = "idle"
    /\ \E handle \in HandleArgs, error_out \in BOOLEAN, aggregate_type \in StringArgs,
          aggregate_id \in IdArgs :
          \E ext \in ExtChoices(dbx_get_aggregate(CallFrame(error_out), handle, aggregate_type,
                                                  aggregate_id, UnusedExt),
                                GetAggregateResponses) :
             Returns("dbx_get_aggregate", handle, error_out, <<aggregate_type, aggregate_id>>,
                     dbx_get_aggregate(CallFrame(error_out), handle, aggregate_type,
                                       aggregate_id, ext))
    /\ UNCHANGED owned

SelectAggregate ==
    /\ pc = "idle"
    /\ \E handle \in HandleArgs, error_out \in BOOLEAN, aggregate_type \in StringArgs,
          aggregate_id \in IdArgs, fields_json \in JsonArgs(FieldsDocs) :
          \E ext \in ExtChoices(dbx_select_aggregate(CallFrame(error_out), handle,
                                                     aggregate_type, aggregate_id, fields_json,
                                                     UnusedExt),
                                SelectAggregateResponses) :
             Returns("dbx_select_aggregate", handle, error_out,
                     <<aggregate_type, aggregate_id, fields_json>>,
                     dbx_select_aggregate(CallFrame(error_out), handle, aggregate_type,
                                          aggregate_id, fields_json, ext))
    /\ UNCHANGED owned

ListEvents ==
    /\ pc = "idle"
    /\ \E handle \in HandleArgs, error_out \in BOOLEAN, aggregate_type \in StringArgs,
          aggregate_id \in IdArgs, options_json \in JsonArgs(EventOptionDocs) :
          \E ext \in ExtChoices(dbx_list_events(CallFrame(error_out), handle, aggregate_type,
                                                aggregate_id, options_json, UnusedExt),
                                ListEventsResponses) :
             Returns("dbx_list_events", handle, error_out,
                     <<aggregate_type, aggregate_id, options_json>>,
                     dbx_list_events(CallFrame(error_out), handle, aggregate_type,
                                     aggregate_id, options_json, ext))
    /\ UNCHANGED owned

AppendEvent ==
    /\ pc = "idle"
    /\ \E handle \in HandleArgs, error_out \in BOOLEAN, aggregate_type \in StringArgs,
          aggregate_id \in IdArgs, event_type \in EventArgs,
          options_json \in JsonArgs(WriteOptionDocs) :
          \E ext \in ExtChoices(dbx_append_event(CallFrame(error_out), handle, aggregate_type,
                                                 aggregate_id, event_type, options_json,
                                                 UnusedExt),
                                EventResponses) :
             Returns("dbx_append_event", handle, error_out,
                     <<aggregate_type, aggregate_id, event_type, options_json>>,
                     dbx_append_event(CallFrame(error_out), handle, aggregate_type,
                                      aggregate_id, event_type, options_json, ext))
    /\ UNCHANGED owned

CreateAggregate ==
    /\ pc = "idle"
    /\ \E handle \in HandleArgs, error_out \in BOOLEAN, aggregate_type \in StringArgs,
          aggregate_id \in IdArgs, event_type \in EventArgs,
          options_json \in JsonArgs(WriteOptionDocs) :
          \E ext \in ExtChoices(dbx_create_aggregate(CallFrame(error_out), handle,
                                                     aggregate_type, aggregate_id, event_type,
                                                     options_json, UnusedExt),
                                AggregateResponses) :
             Returns("dbx_create_aggregate", handle, error_out,
                     <<aggregate_type, aggregate_id, event_type, options_json>>,
                     dbx_create_aggregate(CallFrame(error_out), handle, aggregate_type,
                                          aggregate_id, event_type, options_json, ext))
    /\ UNCHANGED owned

PatchEvent ==
    /\ pc = "idle"
    /\ \E handle \in HandleArgs, error_out \in BOOLEAN, aggregate_type \in StringArgs,
          aggregate_id \in IdArgs, event_type \in EventArgs, patch_json \in PatchArgs,
          options_json \in PatchOptionArgs :
          \E ext \in ExtChoices(dbx_patch_event(CallFrame(error_out), handle, aggregate_type,
                                                aggregate_id, event_type, patch_json,
                                                options_json, UnusedExt),
                                EventResponses) :
             Returns("dbx_patch_event", handle, error_out,
                     <<aggregate_type, aggregate_id, event_type, patch_json, options_json>>,
                     dbx_patch_event(CallFrame(error_out), handle, aggregate_type,
                                     aggregate_id, event_type, patch_json, options_json, ext))
    /\ UNCHANGED owned

SetArchive ==
    /\ pc = "idle"
    /\ \E handle \in HandleArgs, error_out \in BOOLEAN, aggregate_type \in StringArgs,
          aggregate_id \in IdArgs, archived \in BOOLEAN,
          options_json \in JsonArgs(ArchiveOptionDocs) :
          \E ext \in ExtChoices(dbx_set_archive(CallFrame(error_out), handle, aggregate_type,
                                                aggregate_id, archived, options_json,
                                                UnusedExt),
                                AggregateResponses) :
             Returns("dbx_set_archive", handle, error_out,
                     <<aggregate_type, aggregate_id, archived, options_json>>,
                     dbx_set_archive(CallFrame(error_out), handle, aggregate_type,
                                     aggregate_id, archived, options_json, ext))
    /\ UNCHANGED owned

VerifyAggregate ==
    /\ pc = "idle"
    /\ \E handle \in HandleArgs, error_out \in BOOLEAN, aggregate_type \in StringArgs,
          aggregate_id \in IdArgs :
          \E ext \in ExtChoices(dbx_verify_aggregate(CallFrame(error_out), handle,
                                                     aggregate_type, aggregate_id, UnusedExt),
                                VerifyResponses) :
             Returns("dbx_verify_aggregate", handle, error_out,
                     <<aggregate_type, aggregate_id>>,
                     dbx_verify_aggregate(CallFrame(error_out), handle, aggregate_type,
                                          aggregate_id, ext))
    /\ UNCHANGED owned

StringOps ==
    {"dbx_list_aggregates", "dbx_get_aggregate", "dbx_select_aggregate", "dbx_list_events",
     "dbx_append_event", "dbx_create_aggregate", "dbx_patch_event", "dbx_set_archive",
     "dbx_verify_aggregate"}
FallibleOps == StringOps \cup {"dbx_client_new"}

\* the buffers the call handed to the caller: its result, and the message in the slot
Received ==
    (IF last.op \in StringOps /\ last.ret # NULL THEN {last.ret} ELSE {})
        \cup (IF last.error_out /\ slot > last.base THEN {slot} ELSE {})

\* the caller resumes: it takes the result and the message and goes on
CallerResumes ==
    /\ pc = "returned"
    /\ pc' = "idle"
    /\ owned' = owned \cup Received
    /\ last' = NoCall
    /\ UNCHANGED <<decoderVars, threadVars, handles, runtimes, heap, slot>>

Next ==
    \/ ClientNew
    \/ ClientFree
    \/ StringFree
    \/ ListAggregates
    \/ GetAggregate
    \/ SelectAggregate
    \/ ListEvents
    \/ AppendEvent
    \/ CreateAggregate
    \/ PatchEvent
    \/ SetArchive
    \/ VerifyAggregate
    \/ CallerResumes

Spec == Init /\ [][Next]_vars

(***************************************************************************)
(* The decoders on their own: one input, drawn in the initial state, and   *)
(* the decoder applied to it.                                              *)
(***************************************************************************)
InitSort == arg \in SortInputs /\ out = NotRun /\ BridgeIdle /\ ThreadsIdle
ParseSort ==
    /\ out = NotRun
    /\ out' = <<parse_sort(arg)>>
    /\ UNCHANGED <<arg, bridgeVars, threadVars>>
SpecSort == InitSort /\ [][ParseSort]_vars

InitTargets == arg \in TargetInputs /\ out = NotRun /\ BridgeIdle /\ ThreadsIdle
ParsePublishTargets ==
    /\ out = NotRun
    /\ out' = <<parse_publish_targets(arg)>>
    /\ UNCHANGED <<arg, bridgeVars, threadVars>>
SpecTargets == InitTargets /\ [][ParsePublishTargets]_vars

InitPayload == arg \in PayloadInputs /\ out = NotRun /\ BridgeIdle /\ ThreadsIdle
ParsePayloadOptions ==
    /\ Len(out) < MaxDecodes
    /\ out' = Append(out, parse_payload_options(arg))
    /\ UNCHANGED <<arg, bridgeVars, threadVars>>
SpecPayload == InitPayload /\ [][ParsePayloadOptions]_vars

\* dbx_client_new on its own, with a non-null error_out pointing at a null slot:
\* out holds the outcome of the call
InitConfig == arg \in ConfigInputs /\ out = NotRun /\ BridgeIdle /\ ThreadsIdle
ClientNewOnce ==
    /\ out = NotRun
    /\ \E ext \in NewExts :
          out' = <<dbx_client_new(Frame(TRUE, NULL, 0), arg.config_json, arg.env, ext, 1, 1)>>
    /\ UNCHANGED <<arg, bridgeVars, threadVars>>
SpecConfig == InitConfig /\ [][ClientNewOnce]_vars

(***************************************************************************)
(* Two threads, each with a handle of its own.  A call that passes its     *)
(* preconditions hands one future to the runtime of its handle and stays   *)
(* inside block_on until the client of that handle has answered; the       *)
(* other thread runs meanwhile.                                            *)
(***************************************************************************)
Threads == 1..2

\* the calls a thread chooses from; the second fails a precondition
CallChoices ==
    {[op |-> "dbx_get_aggregate", aggregate_type |-> CBuf(<<"order">>),
      aggregate_id |-> CBuf(<<"o-1">>)],
     [op |-> "dbx_get_aggregate", aggregate_type |-> BadBuf(Utf8Error),
      aggregate_id |-> CBuf(<<"o-1">>)],
     [op |-> "dbx_verify_aggregate", aggregate_type |-> CBuf(<<"order">>),
      aggregate_id |-> NullPtr]}
\* how the client can answer a request
Answers(call) ==
    {[resp |-> Err(<<"request timed out">>), ser |-> "ok"]}
        \cup {[resp |-> r, ser |-> "ok"] :
                 r \in IF call = "get_aggregate" THEN GetAggregateResponses ELSE VerifyResponses}

\* the entry point of call c on handle h, the client answering ext
RunCall(c, h, ext) ==
    IF c.op = "dbx_get_aggregate"
    THEN dbx_get_aggregate(Frame(TRUE, NULL, 0), h, c.aggregate_type, c.aggregate_id, ext)
    ELSE dbx_verify_aggregate(Frame(TRUE, NULL, 0), h, c.aggregate_type, c.aggregate_id, ext)

\* a block_on that hands the future to the runtime and returns at once
block_on_mut_detached(h, k) == TRUE

\* block_on returns when its future is complete: request k of handle h is answered
block_on_ready(h, k) == k \in DOMAIN clients[h].answers

InitThreads ==
    /\ DecoderIdle
    /\ handles = [h \in Threads |-> [live |-> TRUE, runtime |-> h]]
    /\ runtimes = Threads
    /\ heap = <<>>
    /\ owned = {}
    /\ slot = NULL
    /\ pc = "idle"
    /\ last = NoCall
    /\ threads = [t \in Threads |-> [pc |-> "idle", called |-> <<>>, waiting |-> None,
                                     results |-> <<>>]]
    /\ clients = [h \in Threads |-> [observed |-> <<>>, inflight |-> {}, answers |-> <<>>]]

\* thread t enters an entry point with its handle: the call fails a precondition
\* and returns, or it reaches block_on and its request reaches the client
ThreadCalls(t) ==
    /\ threads[t].pc = "idle"
    /\ Len(threads[t].called) < MaxCalls
    /\ \E c \in CallChoices :
          LET r0 == RunCall(c, t, UnusedExt)
          IN  IF r0.events = <<>>
              THEN /\ threads' = [threads EXCEPT ![t].called = Append(@, c),
                                                 ![t].results = Append(@, r0.ret # NULL)]
                   /\ UNCHANGED clients
              ELSE LET e == r0.events[1]
                       k == Len(clients[e.handle].observed) + 1
                   IN  /\ threads' = [threads EXCEPT
                                         ![t].called = Append(@, c),
                                         ![t].pc = "blocked",
                                         ![t].waiting = Some([handle |-> e.handle, k |-> k])]
                       /\ clients' = [clients EXCEPT
                                         ![e.handle].observed =
                                             Append(@, [call |-> e.call, req |-> e.req]),
                                         ![e.handle].inflight = @ \cup {k}]
    /\ UNCHANGED <<decoderVars, bridgeVars>>

\* the client of handle h completes or fails one of the requests it has in flight
ClientAnswers(h) ==
    /\ \E k \in clients[h].inflight :
          \E ext \in Answers(clients[h].observed[k].call) :
             clients' = [clients EXCEPT ![h].inflight = @ \ {k},
                                        ![h].answers = (k :> ext) @@ @]
    /\ UNCHANGED <<threads, decoderVars, bridgeVars>>

\* block_on returns and the entry point shapes its result
ThreadReturns(t) ==
    /\ threads[t].pc = "blocked"
    /\ LET w == threads[t].waiting.v
           c == threads[t].called[Len(threads[t].called)]
           answered == w.k \in DOMAIN clients[w.handle].answers
       IN  /\ block_on_ready(w.handle, w.k)
           /\ threads' = [threads EXCEPT
                             ![t].pc = "idle",
                             ![t].waiting = None,
                             ![t].results =
                                 Append(@, answered /\ RunCall(c, t, clients[w.handle].answers[w.k]).ret # NULL)]
    /\ UNCHANGED <<clients, decoderVars, bridgeVars>>

NextThreads ==
    \/ \E t \in Threads : ThreadCalls(t)
    \/ \E h \in Threads : ClientAnswers(h)
    \/ \E t \in Threads : ThreadReturns(t)

SpecThreads == InitThreads /\ [][NextThreads]_vars

(***************************************************************************)
(* The claims.                                                             *)
(***************************************************************************)
Returned(ops) == pc = "returned" /\ last.op \in ops

\* the one message the call left in the slot, if it left exactly one
LeftMessage(msg) ==
    /\ last.allocs = <<[kind |-> "error", text |-> msg]>>
    /\ slot = last.base + 1

\* C1: a fallible entry point called with a non-null error-out slot first stores
\* null in the slot, whatever it held, and returns either a non-null value with the
\* slot null and no message allocated, or null with the slot holding the one
\* message the call allocated.
C1_ErrorSlotProtocol ==
    (Returned(FallibleOps) /\ last.error_out) =>
        /\ last.writes # <<>>
        /\ last.writes[1] = NULL
        /\ \/ /\ last.ret # NULL
              /\ slot = NULL
              /\ \A i \in DOMAIN last.allocs : last.allocs[i].kind # "error"
           \/ /\ last.ret = NULL
              /\ slot = last.base + 1
              /\ Len(last.allocs) = 1
              /\ last.allocs[1].kind = "error"

\* C1 witness: an operation succeeds through a slot that still held the message of
\* an earlier failure.
C1_Witness ==
    /\ Returned(StringOps)
    /\ last.error_out
    /\ last.slot0 > NULL
    /\ last.ret # NULL
    /\ slot = NULL

\* C2: each of the nine operations called with a null handle returns null, leaves
\* the message "handle is null" in the slot (when there is a slot) and makes no call
\* on a runtime or a client, whatever its other arguments are; dbx_client_free of a
\* null handle drops nothing, frees nothing and writes nothing.
C2_NullHandle ==
    /\ (Returned(StringOps) /\ last.handle = NULL) =>
          /\ last.ret = NULL
          /\ last.events = <<>>
          /\ last.freed = {}
          /\ IF last.error_out THEN LeftMessage(HandleIsNull) ELSE last.allocs = <<>>
    /\ (Returned({"dbx_client_free"}) /\ last.handle = NULL) =>
          /\ last.events = <<>>
          /\ last.freed = {}
          /\ last.allocs = <<>>
          /\ last.writes = <<>>

\* C2 witness: patch event with a null handle, an invalid UTF-8 aggregate type and
\* a malformed patch body.
C2_Witness ==
    /\ Returned({"dbx_patch_event"})
    /\ last.handle = NULL
    /\ last.error_out
    /\ last.args[1] = BadBuf(Utf8Error)
    /\ last.args[4] = CBuf(MalformedText(SyntaxError))
    /\ LeftMessage(HandleIsNull)

\* what the caller put into the config: the document of config_json, if it has one
ConfigDoc ==
    IF arg.config_json = NullPtr THEN Some(JNull)
    ELSE IF ~arg.config_json.valid THEN None
    ELSE IF arg.config_json.text.k = "ws" THEN Some(JNull)
    ELSE IF arg.config_json.text.k = "json" THEN Some(arg.config_json.text.v)
    ELSE None
\* an explicit string member of the config
Explicit(key) == IF ConfigDoc.some THEN AsStr(Get(ConfigDoc.v, key)) ELSE None
\* the config is an object (or nothing) whose members all have the type of their field
WellTyped ==
    /\ ConfigDoc.some
    /\ ConfigDoc.v.t \in {"obj", "null"}
    /\ \A key \in ConfigFields :
          LET m == Get(ConfigDoc.v, key)
          IN  m.some /\ m.v.t # "null" =>
                 \/ key \in StringFields /\ m.v.t = "str"
                 \/ key \in U16Fields \cup U64Fields /\ m.v.t = "num" /\ m.v.n >= 0
                       /\ (key \in U16Fields => m.v.n <= U16Max)
                 \/ key \in BoolFields /\ m.v.t = "bool"
Connects(r) == \E i \in DOMAIN r.events : r.events[i].ev \in {"runtime_new", "connect"}
FailedWith(r, msg) ==
    /\ r.ret = NULL
    /\ r.boxed = None
    /\ r.f.allocs = <<[kind |-> "error", text |-> msg]>>
    /\ r.f.slot = 1

\* C3: construction from a well-typed config with no token member, with
\* EVENTDBX_TOKEN unset, returns null with the message "token is required"; that
\* failure and the failures on a config that is not an object, is malformed or has
\* a wrongly typed member all return null with one message, before any runtime is
\* created and before any connect.
C3_MissingToken ==
    out # NotRun =>
        /\ (WellTyped /\ ~Explicit("token").some /\ ~arg.env["EVENTDBX_TOKEN"].some) =>
              FailedWith(out[1], <<"token is required">>) /\ ~Connects(out[1])
        /\ ~WellTyped =>
              /\ out[1].ret = NULL
              /\ out[1].boxed = None
              /\ Len(out[1].f.allocs) = 1
              /\ out[1].f.slot = 1
              /\ ~Connects(out[1])

\* C3 witness: a config with a host and a tenant but no token, no EVENTDBX_TOKEN.
C3_Witness ==
    /\ out # NotRun
    /\ WellTyped
    /\ Explicit("host").some
    /\ Explicit("tenantId").some
    /\ ~Explicit("token").some
    /\ ~arg.env["EVENTDBX_TOKEN"].some
    /\ arg.env["EVENTDBX_HOST"].some
    /\ FailedWith(out[1], <<"token is required">>)

\* the ClientConfig the call handed to EventDbxClient::connect
ConnectConfigs(r) == {r.events[i].cfg : i \in {j \in DOMAIN r.events : r.events[j].ev = "connect"}}

\* C4: whenever dbx_client_new reaches the connect step, the resolved token, host
\* and tenant are non-empty strings.
C4_ResolvedNonEmpty ==
    out # NotRun =>
        \A c \in ConnectConfigs(out[1]) :
            c.token # EmptyStr /\ c.host # EmptyStr /\ c.tenant # EmptyStr

\* the first present source of a chain, the literal when none is present
RECURSIVE FirstPresent(_, _)
FirstPresent(sources, literal) ==
    IF sources = <<>> THEN literal
    ELSE IF Head(sources).some THEN Head(sources).v
    ELSE FirstPresent(Tail(sources), literal)

\* C5: the host handed to connect is the first present of explicit host, explicit
\* ip, EVENTDBX_HOST and "127.0.0.1"; the tenant is the first present of explicit
\* tenantId, tenant, tenantIdEnv, EVENTDBX_TENANT_ID and "default".
C5_FirstMatchWins ==
    out # NotRun =>
        \A c \in ConnectConfigs(out[1]) :
            /\ c.host = FirstPresent(<<Explicit("host"), Explicit("ip"),
                                       arg.env["EVENTDBX_HOST"]>>, <<"127.0.0.1">>)
            /\ c.tenant = FirstPresent(<<Explicit("tenantId"), Explicit("tenant"),
                                         Explicit("tenantIdEnv"),
                                         arg.env["EVENTDBX_TENANT_ID"]>>, <<"default">>)

\* C5 witness: host and ip both given and the environment set, so host wins; no
\* tenantId, so tenant wins over tenantIdEnv and the environment.
C5_Witness ==
    /\ out # NotRun
    /\ Explicit("host") = Some(<<"h.example">>)
    /\ Explicit("ip") = Some(<<"10.0.0.1">>)
    /\ arg.env["EVENTDBX_HOST"] = Some(<<"from-env">>)
    /\ ~Explicit("tenantId").some
    /\ Explicit("tenant") = Some(<<"tenant">>)
    /\ Explicit("tenantIdEnv") = Some(<<"tenant-id-env">>)
    /\ arg.env["EVENTDBX_TENANT_ID"] = Some(<<"from-env">>)
    /\ \E c \in ConnectConfigs(out[1]) : c.host = <<"h.example">> /\ c.tenant = <<"tenant">>

HasEvent(kind) == \E i \in DOMAIN last.events : last.events[i].ev = kind

\* C6: every live runtime is owned by exactly one live handle and every live handle
\* owns a live runtime; dbx_client_new returns a handle only after a runtime was
\* created and the connect succeeded on it, and when it returns null it boxed
\* nothing, left its message, and dropped the runtime it had created.
C6_AtomicConstruction ==
    /\ \A rt \in runtimes : \E h \in LiveHandles : handles[h].runtime = rt
    /\ \A h \in LiveHandles : handles[h].runtime \in runtimes
    /\ \A g, h \in LiveHandles : handles[g].runtime = handles[h].runtime => g = h
    /\ Returned({"dbx_client_new"}) =>
          IF last.ret # NULL
          THEN /\ last.ret \in LiveHandles
               /\ last.boxed.some
               /\ handles[last.ret].runtime = last.boxed.v.runtime
               /\ \E i \in DOMAIN last.events :
                     /\ last.events[i].ev = "connect"
                     /\ last.events[i].resp.ok
                     /\ last.events[i].rt = last.boxed.v.runtime
                     /\ last.events[i].cfg = last.boxed.v.client
               /\ ~HasEvent("runtime_drop")
          ELSE /\ last.boxed = None
               /\ last.error_out => Len(last.allocs) = 1 /\ slot = last.base + 1
               /\ \A i \in DOMAIN last.events :
                     last.events[i].ev = "runtime_new" =>
                         \E j \in DOMAIN last.events :
                             /\ j > i
                             /\ last.events[j].ev = "runtime_drop"
                             /\ last.events[j].rt = last.events[i].rt

\* C6 witness: the connect fails on a runtime that was created, and the runtime
\* is dropped before the call returns null with its message.
C6_Witness ==
    /\ Returned({"dbx_client_new"})
    /\ last.ret = NULL
    /\ last.error_out
    /\ \E i \in DOMAIN last.events : last.events[i].ev = "connect" /\ ~last.events[i].resp.ok
    /\ HasEvent("runtime_drop")
    /\ slot = last.base + 1

\* C7: no buffer is freed twice and no buffer the caller still holds is freed; a
\* call frees something only if it is dbx_string_free of a non-null pointer, and
\* then exactly that pointer; every pointer a call hands back (its result, its
\* message) is a buffer allocated by that call, distinct from every earlier one.
C7_BufferOwnership ==
    /\ \A b \in DOMAIN heap : heap[b] <= 1
    /\ \A b \in owned : b \in DOMAIN heap /\ heap[b] = 0
    /\ pc = "returned" =>
          /\ last.freed = IF last.op = "dbx_string_free" /\ last.args[1] # NULL
                          THEN {last.args[1]}
                          ELSE {}
          /\ Received \subseteq (last.base + 1)..(last.base + Len(last.allocs))
          /\ Len(heap) = last.base + Len(last.allocs)
          /\ Cardinality(Received) = Len(last.allocs)

\* C7 witness: a call clears a reused slot that still points at the message of an
\* earlier failure, which the caller holds and has not released.
C7_Witness ==
    /\ Returned(FallibleOps)
    /\ last.error_out
    /\ last.slot0 \in owned
    /\ heap[last.slot0] = 0
    /\ slot # last.slot0
    /\ last.ret # NULL

\* a token of a sort specification: its field name and its direction
TokenField(token) == ToLowercase(Trim(SplitN2(Trim(token), ":")[1]))
TokenDirection(token) ==
    LET halves == SplitN2(Trim(token), ":")
    IN  IF Len(halves) = 1 THEN EmptyStr ELSE ToLowercase(Trim(halves[2]))
FieldNames ==
    (S_aggregate_type :> "AggregateType") @@ (S_type :> "AggregateType")
        @@ (S_aggregate_id :> "AggregateId") @@ (S_id :> "AggregateId")
        @@ (S_archived :> "Archived") @@ (S_created_at :> "CreatedAt")
        @@ (S_updated_at :> "UpdatedAt")
Recognized(token) == TokenField(token) \in DOMAIN FieldNames
SortTokens == IF arg.some /\ arg.v.t = "str" THEN Split(arg.v.s, ",") ELSE <<>>
RecognizedTokens == SelectSeq(SortTokens, Recognized)

\* C8: parse_sort returns one entry per recognized token, in the order of the
\* tokens; the entry has the token's field, and is descending exactly when the
\* token's direction is desc or descending in any letter case; an absent or
\* non-string value gives the empty sequence.
C8_ParseSort ==
    out # NotRun =>
        /\ Len(out[1]) = Len(RecognizedTokens)
        /\ \A i \in DOMAIN out[1] :
              /\ out[1][i].field = FieldNames[TokenField(RecognizedTokens[i])]
              /\ out[1][i].descending
                     <=> TokenDirection(RecognizedTokens[i]) \in {S_desc, S_descending}

\* C8 witness: three tokens, of which an unrecognized one is dropped, one is
\* descending by "descending" in mixed case and one is ascending by default.
C8_Witness ==
    /\ out # NotRun
    /\ Len(SortTokens) = 3
    /\ Len(out[1]) = 2
    /\ ~Recognized(SortTokens[2])
    /\ Trim(SortTokens[2]) # EmptyStr
    /\ out[1][1] = [field |-> "AggregateType", descending |-> TRUE]
    /\ TokenDirection(SortTokens[1]) = S_descending
    /\ out[1][2] = [field |-> "AggregateId", descending |-> FALSE]
    /\ Find(SortTokens[3], ":") = 0

StringMember(item, key) ==
    IF item.t = "obj" /\ key \in DOMAIN item.o /\ item.o[key].t = "str"
    THEN Some(item.o[key].s)
    ELSE None
HasPlugin(item) == StringMember(item, "plugin").some
TargetEntries == IF arg.some /\ arg.v.t = "arr" THEN arg.v.a ELSE <<>>
PluginEntries == SelectSeq(TargetEntries, HasPlugin)

\* C9: parse_publish_targets returns one target per entry with a string plugin, in
\* the order of the entries; each target has the entry's plugin, and its mode and
\* priority exactly when the entry has them as strings; an absent or non-array
\* value gives the empty list.
C9_ParsePublishTargets ==
    out # NotRun =>
        /\ Len(out[1]) = Len(PluginEntries)
        /\ \A i \in DOMAIN out[1] :
              /\ out[1][i].plugin = StringMember(PluginEntries[i], "plugin").v
              /\ out[1][i].mode = StringMember(PluginEntries[i], "mode")
              /\ out[1][i].priority = StringMember(PluginEntries[i], "priority")

\* C9 witness: of two entries the first has no string plugin and is dropped, the
\* second is kept with its mode and without a priority.
C9_Witness ==
    /\ out # NotRun
    /\ Len(TargetEntries) = 2
    /\ TargetEntries[1].t = "obj"
    /\ ~HasPlugin(TargetEntries[1])
    /\ out[1] = <<[plugin |-> <<"search">>, mode |-> Some(<<"event-only">>), priority |-> None]>>

Member(key) == IF arg.t = "obj" /\ key \in DOMAIN arg.o THEN Some(arg.o[key]) ELSE None
StringOf(m) == IF m.some /\ m.v.t = "str" THEN Some(m.v.s) ELSE None

\* C10: parse_payload_options gives the payload member or null, the metadata
\* member or nothing, the note and token members if they are strings, and the
\* publish targets parsed from publishTargets; the empty object gives the
\* defaults; a second decoding of the same input gives the same output.
C10_ParsePayloadOptions ==
    \A i \in DOMAIN out :
        /\ out[i].payload = (IF Member("payload").some THEN Member("payload").v ELSE JNull)
        /\ out[i].metadata = Member("metadata")
        /\ out[i].note = StringOf(Member("note"))
        /\ out[i].token = StringOf(Member("token"))
        /\ out[i].publish_targets = parse_publish_targets(Member("publishTargets"))
        /\ Member("publishTargets") = None => out[i].publish_targets = <<>>
        /\ arg = JObj(EmptyMap) =>
              out[i] = [payload |-> JNull, note |-> None, metadata |-> None,
                        token |-> None, publish_targets |-> <<>>]
        /\ out[i] = out[1]

\* C10 witness: an object with all five members, decoded twice.
C10_Witness ==
    /\ Len(out) = 2
    /\ out[2].payload = MkObj("name" :> JStr(<<"Ada">>))
    /\ out[2].metadata = Some(MkObj("@source" :> JStr(<<"test">>)))
    /\ out[2].note = Some(<<"demo">>)
    /\ out[2].token = Some(<<"abc">>)
    /\ Len(out[2].publish_targets) = 2
    /\ out[2].publish_targets[1].mode = Some(<<"all">>)

\* the document a JSON argument stands for: null for a null pointer and for blank
\* text, the written value otherwise
DocOf(buf) ==
    IF buf = NullPtr THEN JNull
    ELSE IF buf.text.k = "json" THEN buf.text.v
    ELSE JNull
\* the call got as far as the client, and what it asked of it
Submitted == last.events # <<>>
Req == last.events[1].req
PayloadMember(doc) == IF doc.t = "obj" /\ "payload" \in DOMAIN doc.o THEN Some(doc.o.payload) ELSE None

\* C11: the request of append event and create aggregate never carries a null
\* payload: it carries the empty object when the options have no payload member or
\* a null one (or are no object at all) and the payload member as written otherwise;
\* the request of patch event carries the document of the patch argument, null
\* included, and has no payload of its own.
C11_PayloadNormalisation ==
    /\ (Returned({"dbx_append_event", "dbx_create_aggregate"}) /\ Submitted) =>
          LET p == PayloadMember(DocOf(last.args[4]))
          IN  /\ Req.payload # JNull
              /\ Req.payload = (IF ~p.some \/ p.v = JNull THEN JObj(EmptyMap) ELSE p.v)
    /\ (Returned({"dbx_patch_event"}) /\ Submitted) =>
          /\ Req.patch = DocOf(last.args[4])
          /\ "payload" \notin DOMAIN Req

\* C11 witness: create aggregate with the options {"payload": null, "token": "abc"}
\* submits a request whose payload is the empty object.
C11_Witness ==
    /\ Returned({"dbx_create_aggregate"})
    /\ Submitted
    /\ PayloadMember(DocOf(last.args[4])) = Some(JNull)
    /\ Req.payload = JObj(EmptyMap)
    /\ Req.token = Some(<<"abc">>)

\* a patch event whose patch argument is null and whose options carry a payload
C11_PatchWitness ==
    /\ Returned({"dbx_patch_event"})
    /\ Submitted
    /\ last.args[4] \in {NullPtr, CBuf(BlankText), CBuf(JsonText(JNull))}
    /\ PayloadMember(DocOf(last.args[5])).some
    /\ Req.patch = JNull

\* the string arguments of an operation are its first StringCount arguments; its
\* JSON arguments are at JsonIndexes, in argument order
StringCount ==
    [dbx_list_aggregates |-> 1, dbx_get_aggregate |-> 2, dbx_select_aggregate |-> 2,
     dbx_list_events |-> 2, dbx_append_event |-> 3, dbx_create_aggregate |-> 3,
     dbx_patch_event |-> 3, dbx_set_archive |-> 2, dbx_verify_aggregate |-> 2]
JsonIndexes ==
    [dbx_list_aggregates |-> <<2>>, dbx_get_aggregate |-> <<>>, dbx_select_aggregate |-> <<3>>,
     dbx_list_events |-> <<3>>, dbx_append_event |-> <<4>>, dbx_create_aggregate |-> <<4>>,
     dbx_patch_event |-> <<4, 5>>, dbx_set_archive |-> <<4>>, dbx_verify_aggregate |-> <<>>]
ValidUtf8(buf) == buf = NullPtr \/ buf.valid
Parses(buf) == buf = NullPtr \/ (buf.valid /\ buf.text.k \in {"ws", "json"})
\* the handle is not null, every string is valid UTF-8 and every JSON argument parses
DecodesCleanly ==
    /\ last.handle # NULL
    /\ \A i \in 1..StringCount[last.op] : ValidUtf8(last.args[i])
    /\ \A j \in DOMAIN JsonIndexes[last.op] : Parses(last.args[JsonIndexes[last.op][j]])
OptionOps ==
    {"dbx_list_aggregates", "dbx_list_events", "dbx_append_event", "dbx_create_aggregate",
     "dbx_patch_event", "dbx_set_archive"}
OptionsArg == last.args[JsonIndexes[last.op][Len(JsonIndexes[last.op])]]
NotAnObject(doc) == doc.t \notin {"obj", "null"}
NotStringArray(doc) ==
    /\ doc.t # "null"
    /\ ~(doc.t = "arr" /\ \A i \in DOMAIN doc.a : doc.a[i].t = "str")
\* null returned, nothing asked of the client, one message left in the slot
Rejected ==
    /\ last.ret = NULL
    /\ ~Submitted
    /\ last.error_out => (slot = last.base + 1 /\ Len(last.allocs) = 1)

\* C12: an operation whose options parse but are not an object (list aggregates,
\* list events, append, create, patch, set archive), and select aggregate with
\* fields that parse but are not an array of strings, returns null with a message
\* and asks nothing of the client.
C12_InvalidOption ==
    /\ (Returned(OptionOps) /\ DecodesCleanly /\ NotAnObject(DocOf(OptionsArg))) => Rejected
    /\ (Returned({"dbx_select_aggregate"}) /\ DecodesCleanly
            /\ NotStringArray(DocOf(last.args[3]))) => Rejected

\* the part of C12 the code does enforce: fields that are neither an array nor null
C12_FieldsNotArray ==
    (Returned({"dbx_select_aggregate"}) /\ DecodesCleanly
        /\ DocOf(last.args[3]).t \notin {"arr", "null"}) =>
        /\ Rejected
        /\ last.error_out => LeftMessage(<<"fields must be an array of strings">>)

\* the arguments an operation decodes, in the order of its signature
CheckedArgs == [i \in 1..StringCount[last.op] |-> i] \o JsonIndexes[last.op]
IsJsonArg(i) == \E j \in DOMAIN JsonIndexes[last.op] : JsonIndexes[last.op][j] = i
\* the message for an argument that does not decode
ArgMessage(i) ==
    IF ~ValidUtf8(last.args[i]) THEN Some(<<"invalid utf-8: ">> \o last.args[i].e)
    ELSE IF IsJsonArg(i) /\ last.args[i] # NullPtr /\ last.args[i].text.k = "bad"
         THEN Some(<<"invalid json: ">> \o last.args[i].text.e)
    ELSE None
\* the message of the earliest violated precondition of the call, if there is one
FirstViolated ==
    LET bad == {k \in DOMAIN CheckedArgs : ArgMessage(CheckedArgs[k]).some}
    IN  IF last.handle = NULL THEN Some(HandleIsNull)
        ELSE IF bad # {}
             THEN ArgMessage(CheckedArgs[CHOOSE k \in bad : \A m \in bad : k <= m])
        ELSE IF last.op = "dbx_select_aggregate" /\ DocOf(last.args[3]).t \notin {"arr", "null"}
             THEN Some(<<"fields must be an array of strings">>)
        ELSE None

TypeText == IF last.args[1] = NullPtr THEN EmptyStr ELSE last.args[1].text
\* the string filter member of the options the caller passed, if they have one
ExplicitFilter ==
    LET doc == DocOf(last.args[2])
    IN  IF doc.t = "obj" /\ "filter" \in DOMAIN doc.o /\ doc.o.filter.t = "str"
        THEN Some(doc.o.filter.s)
        ELSE None

\* C14: the request of list aggregates carries the options' string filter as
\* written when there is one; otherwise aggregate_type = "<type>" with the type
\* as passed, quote characters included, when the aggregate type is not empty;
\* otherwise no filter.
C14_SynthesizedFilter ==
    (Returned({"dbx_list_aggregates"}) /\ Submitted) =>
        Req.filter = (IF ExplicitFilter.some THEN ExplicitFilter
                      ELSE IF TypeText # EmptyStr
                           THEN Some(<<"aggregate_type = \"">> \o TypeText \o <<"\"">>)
                      ELSE None)

\* C14 witness: the type a"b with options whose filter is a number gives the
\* filter aggregate_type = "a"b".
C14_Witness ==
    /\ Returned({"dbx_list_aggregates"})
    /\ Submitted
    /\ last.args[1] = CBuf(<<"a", "\"", "b">>)
    /\ DocOf(last.args[2]) = MkObj(("filter" :> JNum(1)) @@ ("take" :> JNum(5)))
    /\ Req.filter = Some(<<"aggregate_type = \"", "a", "\"", "b", "\"">>)

\* an explicit filter next to an aggregate type is sent as written
C14_ExplicitWitness ==
    /\ Returned({"dbx_list_aggregates"})
    /\ Submitted
    /\ TypeText = <<"order">>
    /\ Req.filter = Some(<<"archived = false">>)

\* the requests the call submitted to the client
Requests == SelectSeq(last.events, LAMBDA e : e.ev = "request")
ClientFailed == Submitted /\ ~last.events[1].resp.ok
ContainsZeroByte(msg) == \E i \in DOMAIN msg : msg[i] = NUL

RECURSIVE AloneRequests(_, _)
AloneRequests(calls, h) ==
    IF calls = <<>> THEN <<>>
    ELSE LET r0 == RunCall(Head(calls), h, UnusedExt)
         IN  (IF r0.events = <<>> THEN <<>>
              ELSE <<[call |-> r0.events[1].call, req |-> r0.events[1].req]>>)
                 \o AloneRequests(Tail(calls), h)

\* C16: with each handle driven by one thread, a handle has at most one request
\* in flight, a thread that is back from a call has none in flight, and the
\* client of a handle has received exactly the requests of the calls made on
\* that handle, in call order, however the two threads interleave.
C16_PerHandleOrder ==
    /\ \A h \in DOMAIN clients :
          /\ Cardinality(clients[h].inflight) <= 1
          /\ clients[h].observed = AloneRequests(threads[h].called, h)
    /\ \A t \in DOMAIN threads :
          threads[t].pc = "idle" => clients[t].inflight = {}

\* C16 witness: both handles have a request in flight at once, the second
\* request of handle 1 and the first of handle 2, after a failed first request
\* on handle 1.
C16_Witness ==
    /\ DOMAIN clients = Threads
    /\ clients[1].inflight = {2}
    /\ clients[2].inflight = {1}
    /\ ~clients[1].answers[1].resp.ok
    /\ Len(threads[1].called) = 2

====
